---- MODULE Spec2Model ----
(***************************************************************************)
(* vgmparse.Parser: construction (validate_vgm_data, parse_metadata,       *)
(* validate_vgm_version, parse_gd3, parse_commands), save, and a second    *)
(* construction from the saved bytes.                                      *)
(*                                                                         *)
(* Bytes are the integers 0..255, a bytes object is a sequence of them, a  *)
(* position p of a buffer is the element p + 1 of its sequence.  None is   *)
(* the empty tuple and a present value x is <<x>>, so that None and b''    *)
(* differ.  An unsigned 32-bit value of 2^31 or more is kept as the value   *)
(* less 2^32 (TLC's integers have 32 bits): a negative integer is a value   *)
(* no buffer position or length reaches.                                   *)
(***************************************************************************)
EXTENDS Integers, Sequences, FiniteSets, TLC

VARIABLES
    py3,           \* sys.version_info > (3, 0): the interpreter running the module
    order,         \* the order in which metadata_offsets.items() yields its keys
    vgm_data,      \* the constructor's argument
    data,          \* self.data: the bytes the parser reads
    cursor,        \* self.data.tell()
    original_pos,  \* parse_commands' saved position
    pc,            \* where construction stands
    metadata,      \* self.metadata
    gd3_data,      \* self.gd3_data
    command_list,  \* self.command_list
    data_block,    \* self.data_block
    command,       \* parse_commands' local: the last byte read
    err,           \* the exception construction raised, if any
    run,           \* 1: the Parser of the input, 2: the Parser of the saved bytes
    first,         \* what the first Parser held when save() was called
    out            \* the bytes save() wrote

vars == <<py3, order, vgm_data, data, cursor, original_pos, pc, metadata,
          gd3_data, command_list, data_block, command, err, run, first, out>>

---------------------------------------------------------------------------
(* Bounds of the checked inputs *)

\* commands (tokens) in an input's command stream
MaxCmds == 2
\* bytes cut off the end of an input file
MaxCut == 2

---------------------------------------------------------------------------
(* Bytes and buffers *)

None == <<>>
Some(x) == <<x>>
Unbound == <<-1>>

Min(a, b) == IF a <= b THEN a ELSE b

Zeros(n) == [i \in 1..n |-> 0]

\* a position beyond the end of every buffer
Far == 2 ^ 30

\* the position v + k, v an unsigned 32-bit value: Far when beyond Far
position(v, k) == IF v < 0 \/ v > Far - k THEN Far ELSE v + k

\* buffer.seek(pos); buffer.read(n): the bytes read, fewer than n at the end
Read(buf, pos, n) ==
    IF pos >= Len(buf) \/ n = 0 THEN <<>>
    ELSE SubSeq(buf, pos + 1,
                IF n < 0 \/ n >= Len(buf) - pos THEN Len(buf) ELSE pos + n)

\* buffer.seek(pos); buffer.write(bytes): overwrites, and extends the buffer
Write(buf, pos, bytes) ==
    LET gap == IF pos > Len(buf) THEN Zeros(pos - Len(buf)) ELSE <<>>
        head == SubSeq(buf, 1, Min(pos, Len(buf))) \o gap
        tail == IF pos + Len(bytes) < Len(buf)
                THEN SubSeq(buf, pos + Len(bytes) + 1, Len(buf)) ELSE <<>>
    IN  head \o bytes \o tail

\* the size in bytes of a struct format
calcsize(fmt) == CASE fmt = "<I" -> 4 [] fmt = "<H" -> 2 [] fmt = "B" -> 1

FromLE(d) ==
    CASE Len(d) = 1 -> d[1]
      [] Len(d) = 2 -> d[1] + 256 * d[2]
      [] Len(d) = 4 -> d[1] + 256 * d[2] + 65536 * d[3]
                       + 16777216 * (IF d[4] < 128 THEN d[4] ELSE d[4] - 256)

unpack_lenient(fmt, d) ==
    [ok |-> TRUE, v |-> FromLE(d \o Zeros(calcsize(fmt) - Len(d)))]

\* struct.unpack(fmt, d)[0]: struct.error unless d has exactly the format's size
unpack(fmt, d) ==
    IF Len(d) = calcsize(fmt) THEN [ok |-> TRUE, v |-> FromLE(d)]
    ELSE [ok |-> FALSE, v |-> 0]

\* struct.pack(fmt, v)
pack(fmt, v) ==
    CASE fmt = "B" -> <<v % 256>>
      [] fmt = "<H" -> <<v % 256, (v \div 256) % 256>>
      [] fmt = "<I" -> <<v % 256, (v \div 256) % 256, (v \div 65536) % 256,
                         (v \div 16777216) % 256>>

---------------------------------------------------------------------------
(* Class attributes *)

vgm_magic_number == <<\h56, \h67, \h6D, \h20>>

supported_ver_list_wide == {\h101, \h150, \h200}

supported_ver_list == {\h101, \h150}

metadata_offsets ==
    [vgm_ident       |-> [offset |-> \h00, size |-> 4, type_format |-> "None"],
     eof_offset      |-> [offset |-> \h04, size |-> 4, type_format |-> "<I"],
     version         |-> [offset |-> \h08, size |-> 4, type_format |-> "<I"],
     sn76489_clock   |-> [offset |-> \h0C, size |-> 4, type_format |-> "<I"],
     ym2413_clock    |-> [offset |-> \h10, size |-> 4, type_format |-> "<I"],
     gd3_offset      |-> [offset |-> \h14, size |-> 4, type_format |-> "<I"],
     total_samples   |-> [offset |-> \h18, size |-> 4, type_format |-> "<I"],
     loop_offset     |-> [offset |-> \h1C, size |-> 4, type_format |-> "<I"],
     loop_samples    |-> [offset |-> \h20, size |-> 4, type_format |-> "<I"],
     rate            |-> [offset |-> \h24, size |-> 4, type_format |-> "<I"],
     sn76489_feedback |-> [offset |-> \h28, size |-> 2, type_format |-> "<H"],
     sn76489_shift_register_width |->
                         [offset |-> \h2A, size |-> 1, type_format |-> "B"],
     ym2612_clock    |-> [offset |-> \h2C, size |-> 4, type_format |-> "<I"],
     ym2151_clock    |-> [offset |-> \h30, size |-> 4, type_format |-> "<I"],
     vgm_data_offset |-> [offset |-> \h34, size |-> 4, type_format |-> "<I"]]

\* the keys of metadata_offsets in the order the dict literal inserts them
Declared ==
    <<"vgm_ident", "eof_offset", "version", "sn76489_clock", "ym2413_clock",
      "gd3_offset", "total_samples", "loop_offset", "loop_samples", "rate",
      "sn76489_feedback", "sn76489_shift_register_width", "ym2612_clock",
      "ym2151_clock", "vgm_data_offset">>

---------------------------------------------------------------------------
(* The cursor discipline of the sub-steps *)

seek_back_missing(original, pos) == pos

\* self.data.seek(original_pos) at the end of a sub-step
seek_back(original, pos) == original

---------------------------------------------------------------------------
(* validate_vgm_data *)

GzipMagic == <<\h1F, \h8B, \h08, \h00>>

\* the bytes of the constructor's argument: a gzip stream is its magic number
\* and an opaque deflate body
RawBytes(v) == IF v.gzip THEN GzipMagic \o Zeros(v.size - 4) ELSE v.payload

\* gzip.GzipFile(fileobj=..., mode='rb'): the decompressed bytes, or IOError
\* when the argument is no gzip stream or its header is not intact
GzipFile(v) ==
    IF v.gzip /\ v.intact THEN [ok |-> TRUE, bytes |-> v.payload]
    ELSE [ok |-> FALSE, bytes |-> <<>>]

validate_vgm_data(v, buf, pos) ==
    IF Read(buf, 0, 4) = vgm_magic_number
    THEN [err |-> "none", data |-> buf, cursor |-> seek_back(pos, 4)]
    ELSE LET z == GzipFile(v)
         IN  IF z.ok /\ Read(z.bytes, 0, 4) = vgm_magic_number
             THEN [err |-> "none", data |-> z.bytes, cursor |-> seek_back(pos, 4)]
             ELSE [err |-> "ValueError", data |-> z.bytes,
                   cursor |-> Len(Read(z.bytes, 0, 4))]

---------------------------------------------------------------------------
(* parse_metadata *)

RECURSIVE metadata_loop(_, _, _, _)
\* the loop over metadata_offsets.items(), from the i-th key of the order on
metadata_loop(buf, ord, i, md) ==
    IF i > Len(ord) THEN [ok |-> TRUE, metadata |-> md, cursor |-> 0]
    ELSE LET value == ord[i]
             offset_data == metadata_offsets[value]
             d == Read(buf, offset_data.offset, offset_data.size)
         IN  IF offset_data.type_format = "None"
             THEN metadata_loop(buf, ord, i + 1, md @@ (value :> d))
             ELSE LET u == unpack(offset_data.type_format, d)
                  IN  IF u.ok
                      THEN metadata_loop(buf, ord, i + 1, md @@ (value :> u.v))
                      ELSE [ok |-> FALSE, metadata |-> md,
                            cursor |-> offset_data.offset + Len(d)]

\* where the cursor stands after the loop's last read
metadata_end(buf, ord) ==
    LET offset_data == metadata_offsets[ord[Len(ord)]]
    IN  offset_data.offset + Len(Read(buf, offset_data.offset, offset_data.size))

parse_metadata(buf, ord, pos) ==
    LET r == metadata_loop(buf, ord, 1, <<>>)
    IN  IF r.ok
        THEN [err |-> "none", metadata |-> r.metadata,
              cursor |-> seek_back(pos, metadata_end(buf, ord))]
        ELSE [err |-> "struct.error", metadata |-> r.metadata, cursor |-> r.cursor]

---------------------------------------------------------------------------
(* validate_vgm_version, version_str *)

HexDigits == <<"0", "1", "2", "3", "4", "5", "6", "7", "8", "9",
               "a", "b", "c", "d", "e", "f">>

RECURSIVE hex(_)
\* '%x' % n
hex(n) == IF n < 16 THEN HexDigits[n + 1]
          ELSE hex(n \div 16) \o HexDigits[(n % 16) + 1]

\* '%02x' % n
hex02(n) == IF n < 16 THEN "0" \o hex(n) ELSE hex(n)

\* version >> 8
shift8(version) ==
    IF version < 0 THEN (version \div 256) + 16777216 ELSE version \div 256

\* '%01x.%02x' % (version >> 8, version & 0xFF)
version_str(version) == hex(shift8(version)) \o "." \o hex02(version % 256)

validate_vgm_version(md) ==
    IF md.version \notin supported_ver_list
    THEN [err |-> "VersionError",
          msg |-> "VGM version " \o version_str(md.version) \o " is not supported"]
    ELSE [err |-> "none", msg |-> ""]

---------------------------------------------------------------------------
(* parse_gd3 *)

gd3_at_end_flush(gd3_fields, current_field) == Append(gd3_fields, current_field)

\* the loop's break at the end of the GD3 data: an unterminated field is dropped
gd3_at_end(gd3_fields, current_field) == gd3_fields

RECURSIVE gd3_loop(_, _, _, _)
\* the loop reading two bytes at a time from the GD3 data
gd3_loop(gd3, pos, gd3_fields, current_field) ==
    LET char == Read(gd3, pos, 2)
    IN  IF char = <<>> THEN gd3_at_end(gd3_fields, current_field)
        ELSE IF char = <<0, 0>>
             THEN gd3_loop(gd3, pos + 2, Append(gd3_fields, current_field), <<>>)
             ELSE gd3_loop(gd3, pos + Len(char), gd3_fields, current_field \o char)

parse_gd3(buf, md, pos) ==
    LET start == position(md.gd3_offset, metadata_offsets.gd3_offset.offset + 8)
        lenbytes == Read(buf, start, 4)
        u == unpack("<I", lenbytes)
        payload == Read(buf, start + 4, u.v)
        f == gd3_loop(payload, 0, <<>>, <<>>)
    IN  IF ~u.ok
        THEN [err |-> "struct.error", gd3_data |-> <<>>,
              cursor |-> start + Len(lenbytes)]
        ELSE IF Len(f) < 11
             THEN [err |-> "IndexError", gd3_data |-> <<>>,
                   cursor |-> start + 4 + Len(payload)]
             ELSE [err |-> "none",
                   gd3_data |-> [title_eng |-> f[1], title_jap |-> f[2],
                                 game_eng |-> f[3], game_jap |-> f[4],
                                 console_eng |-> f[5], console_jap |-> f[6],
                                 artist_eng |-> f[7], artist_jap |-> f[8],
                                 date |-> f[9], vgm_creator |-> f[10],
                                 notes |-> f[11]],
                   cursor |-> seek_back(pos, start + 4 + Len(payload))]

---------------------------------------------------------------------------
(* parse_commands *)

operand_size_short_wait(op) ==
    CASE op \in {\h4F, \h50} -> 1
      [] op \in {\h51, \h52, \h53, \h54} -> 2
      [] op = \h61 -> 1
      [] op = \hE0 -> 4
      [] OTHER -> 0

\* the n of the branch's self.data.read(n), 0 for a branch that reads nothing
operand_size(op) ==
    CASE op \in {\h4F, \h50} -> 1
      [] op \in {\h51, \h52, \h53, \h54} -> 2
      [] op = \h61 -> 2
      [] op = \hE0 -> 4
      [] OTHER -> 0

\* command == '': bytes never equal str under Python 3
eof_break(c, isPy3) == ~isPy3 /\ c = <<>>

data_block_branch_short_skip(buf, pos) ==
    LET lenbytes == Read(buf, pos + 1, 4)
        u == unpack("<I", lenbytes)
        block == Read(buf, pos + 5, u.v)
    IN  [ok |-> u.ok, block |-> block,
         cursor |-> IF u.ok THEN pos + 5 + Len(block) ELSE pos + 1 + Len(lenbytes)]

\* the 0x67 branch, entered with the cursor after the opcode: seek(2, 1), the
\* 4-byte size, the block
data_block_branch(buf, pos) ==
    LET lenbytes == Read(buf, pos + 2, 4)
        u == unpack("<I", lenbytes)
        block == Read(buf, pos + 6, u.v)
    IN  [ok |-> u.ok, block |-> block,
         cursor |-> IF u.ok THEN pos + 6 + Len(block) ELSE pos + 2 + Len(lenbytes)]

no_branch_stall(pos) == pos - 1

\* no branch of the if/elif chain matched: the loop goes on from the cursor
no_branch(pos) == pos

\* one pass of the while loop, entered with the cursor at pos
scan_iteration(buf, pos, cl, db, isPy3) ==
    LET c == Read(buf, pos, 1)
        p == pos + Len(c)
        op == IF c = <<>> THEN -1 ELSE c[1]
        d == Read(buf, p, operand_size(op))
        same == [command |-> c, cursor |-> p, command_list |-> cl,
                 data_block |-> db, next |-> "loop"]
    IN  IF eof_break(c, isPy3) THEN [same EXCEPT !.next = "break"]
        ELSE IF op \in {\h4F, \h50} \/ op \in {\h51, \h52, \h53, \h54}
                 \/ op = \h61 \/ op = \hE0
        THEN [same EXCEPT !.cursor = p + Len(d),
                          !.command_list = Append(cl, [command |-> c, data |-> Some(d)])]
        ELSE IF op \in {\h62, \h63, \h66}
        THEN [same EXCEPT !.command_list = Append(cl, [command |-> c, data |-> None]),
                          !.next = IF op = \h66 THEN "break" ELSE "loop"]
        ELSE IF op = \h67
        THEN LET b == data_block_branch(buf, p)
             IN  IF b.ok
                 THEN [same EXCEPT !.cursor = b.cursor, !.data_block = Some(b.block)]
                 ELSE [same EXCEPT !.cursor = b.cursor, !.next = "struct.error"]
        ELSE IF \h70 <= op /\ op <= \h8F
        THEN [same EXCEPT !.command_list = Append(cl, [command |-> c, data |-> None])]
        ELSE [same EXCEPT !.cursor = no_branch(p)]

---------------------------------------------------------------------------
(* save *)

RECURSIVE save_header(_, _, _, _, _)
\* the loop over metadata_offsets.items(): the buffer and its position
save_header(buf, pos, ord, i, md) ==
    IF i > Len(ord) THEN [buf |-> buf, pos |-> pos]
    ELSE LET value == ord[i]
             offset_data == metadata_offsets[value]
             bytes == IF offset_data.type_format = "None" THEN md[value]
                      ELSE pack(offset_data.type_format, md[value])
         IN  save_header(Write(buf, offset_data.offset, bytes),
                         offset_data.offset + Len(bytes), ord, i + 1, md)

RECURSIVE save_commands(_, _, _, _)
\* the loop over self.command_list, writing at the buffer's position
save_commands(buf, pos, cl, i) ==
    IF i > Len(cl) THEN buf
    ELSE LET cmd == cl[i]
             bytes == IF cmd.data # None /\ cmd.data[1] # <<>>
                      THEN cmd.command \o cmd.data[1] ELSE cmd.command
         IN  save_commands(Write(buf, pos, bytes), pos + Len(bytes), cl, i + 1)

\* save(buffer) on an empty buffer: the bytes written
save(md, cl, ord) ==
    LET h == save_header(Write(<<>>, 0, Zeros(\h40)), \h40, ord, 1, md)
    IN  save_commands(h.buf, h.pos, cl, 1)

---------------------------------------------------------------------------
(* Input files *)

\* n bytes of v, least significant first
LE(v, n) == [i \in 1..n |-> (v \div (256 ^ (i - 1))) % 256]

RECURSIVE Flatten(_)
Flatten(ss) == IF ss = <<>> THEN <<>> ELSE Head(ss) \o Flatten(Tail(ss))

\* a 0x40-byte header
Header(f) ==
    vgm_magic_number \o LE(f.eof_offset, 4) \o LE(f.version, 4)
    \o LE(f.sn76489_clock, 4) \o LE(f.ym2413_clock, 4) \o LE(f.gd3_offset, 4)
    \o LE(f.total_samples, 4) \o LE(f.loop_offset, 4) \o LE(f.loop_samples, 4)
    \o LE(f.rate, 4) \o LE(f.sn76489_feedback, 2)
    \o LE(f.sn76489_shift_register_width, 1) \o Zeros(1)
    \o LE(f.ym2612_clock, 4) \o LE(f.ym2151_clock, 4) \o LE(f.vgm_data_offset, 4)
    \o Zeros(8)

\* chip fields that leave the header's second half zero
PlainFields ==
    [eof_offset |-> \h1234, sn76489_clock |-> 3579545, ym2413_clock |-> 0,
     total_samples |-> \h010203, loop_samples |-> 0, rate |-> 0,
     sn76489_feedback |-> 0, sn76489_shift_register_width |-> 0,
     ym2612_clock |-> 0, ym2151_clock |-> 0]

\* chip fields that are all set
FullFields ==
    [eof_offset |-> \h7F000001, sn76489_clock |-> 3579545, ym2413_clock |-> 3579540,
     total_samples |-> \h010203, loop_samples |-> \h0102, rate |-> 60,
     sn76489_feedback |-> 9, sn76489_shift_register_width |-> 16,
     ym2612_clock |-> 7670453, ym2151_clock |-> 4000000]

\* a GD3 block whose payload holds n terminated one-unit fields, then extra,
\* with a declared length of the payload's length plus more
Gd3Block(n, extra, more) ==
    LET payload == Flatten([i \in 1..n |-> <<\h40 + i, 0, 0, 0>>]) \o extra
    IN  <<\h47, \h64, \h33, \h20>> \o LE(\h100, 4) \o LE(Len(payload) + more, 4)
        \o payload

\* the commands an input's stream is made of
Tokens ==
    { <<\h50, \h80>>, <<\h51, \h2A, \h66>>, <<\h61, \h10, \h00>>, <<\h62>>,
      <<\h66>>, <<\h7A>>, <<\hE0, 1, 2, 3, 4>>, <<\h00>>,
      <<\h67, \h66, \h00, 2, 0, 0, 0, \hAA, \hBB>>,
      <<\h67, \h66, \h00, 1, 0, 0, 0, \hCC>> }

RECURSIVE Streams(_)
\* the streams of at most n tokens
Streams(n) ==
    IF n = 0 THEN { <<>> }
    ELSE LET shorter == Streams(n - 1)
         IN  shorter \cup { s \o t : s \in shorter, t \in Tokens }

\* an input file: a header, the stream at 0x40, a GD3 block after it when the
\* header points to one (otherwise gd3_offset is 0 and the tag is read from the
\* header's own bytes), cut bytes short of its end, and of at most keep bytes
\* when keep is not negative
File(i) ==
    LET gd3_offset == IF i.gd3 THEN \h40 + Len(i.stream) - \h14 ELSE 0
        full == Header(i.fields @@
                       [version |-> i.version, gd3_offset |-> gd3_offset,
                        loop_offset |-> i.loop_offset,
                        vgm_data_offset |-> i.vgm_data_offset])
                \o i.stream
                \o (IF i.gd3 THEN Gd3Block(i.terminators, i.extra, i.more) ELSE <<>>)
        cut == SubSeq(full, 1, Len(full) - Min(i.cut, Len(full)))
    IN  IF i.keep >= 0 THEN SubSeq(cut, 1, Min(i.keep, Len(cut))) ELSE cut


Base ==
    [version |-> \h101, fields |-> PlainFields, gd3 |-> TRUE, loop_offset |-> 0,
     vgm_data_offset |-> \h0C, stream |-> <<\h50, \h80, \h66>>,
     terminators |-> 11, extra |-> <<>>, more |-> 0, cut |-> 0, keep |-> -1]

\* no GD3 block: the tag is the 24 header bytes from 0x20 on
Tagless == [Base EXCEPT !.gd3 = FALSE, !.loop_offset = 24]

Layouts == { Base, Tagless, [Tagless EXCEPT !.vgm_data_offset = 0] }

StreamFiles ==
    { [l EXCEPT !.stream = s, !.cut = c] :
        l \in Layouts, s \in Streams(MaxCmds), c \in 0..MaxCut }

Versions == {\h0, \h100, \h101, \h110, \h150, \h151, \h200, \h12345}

VersionFiles == { [Base EXCEPT !.version = v] : v \in Versions }

FieldFiles ==
    { [Base EXCEPT !.fields = FullFields, !.vgm_data_offset = o, !.stream = s] :
        o \in {0, \h0C}, s \in { <<\h66>>, <<\h50, \h80, \h62, \h66>> } }

Gd3Files ==
    { [Base EXCEPT !.terminators = n, !.extra = e, !.more = m] :
        n \in {10, 11, 12},
        e \in { <<>>, <<\h42, 0>>, <<\h42>>, <<\h42, 0, 0, \h43>> },
        m \in {0, 2} }

HeaderLens == {0, 3, 4, \h10, \h2A, \h37, \h38, \h3F, \h40}

ShortFiles ==
    { [l EXCEPT !.stream = s, !.keep = k] :
        l \in {Base, [Tagless EXCEPT !.vgm_data_offset = 0]},
        s \in { <<>>, <<\h66>> }, k \in HeaderLens }

Files == StreamFiles \cup VersionFiles \cup FieldFiles \cup Gd3Files \cup ShortFiles

\* a length the gzip stream of a payload can have: 18 bytes of framing and a
\* deflate body that spends about two bytes on each byte that is not zero and
\* next to nothing on the runs of zeros
GzipSize(bytes) == 22 + 2 * Cardinality({ i \in 1..Len(bytes) : bytes[i] # 0 })

Raw(bytes) == [gzip |-> FALSE, intact |-> TRUE, size |-> Len(bytes), payload |-> bytes]

\* the arguments a Parser is constructed from
Arguments ==
    { Raw(File(f)) : f \in Files }
    \cup { [gzip |-> TRUE, intact |-> ok, size |-> GzipSize(File(f)),
            payload |-> File(f)] :
             f \in VersionFiles \cup ShortFiles, ok \in BOOLEAN }
    \cup { Raw(<<1, 2, 3, 4, 5>>),
           [gzip |-> TRUE, intact |-> TRUE, size |-> GzipSize(<<1, 2, 3, 4, 5>>),
            payload |-> <<1, 2, 3, 4, 5>>] }

\* an order a dict without insertion order may yield: it ends with ym2413_clock
Rotated == SubSeq(Declared, 6, 15) \o SubSeq(Declared, 1, 5)

\* dicts keep insertion order under Python 3 (3.7 on); before, any order
Orders(isPy3) == IF isPy3 THEN {Declared} ELSE {Declared, Rotated}

---------------------------------------------------------------------------
(* The state machine *)

NoError == [kind |-> "none", msg |-> ""]

Fresh == [command_list |-> <<>>, metadata |-> <<>>, data_block |-> None]

Init ==
    /\ py3 \in BOOLEAN
    /\ order \in Orders(py3)
    /\ vgm_data \in Arguments
    /\ data = RawBytes(vgm_data)
    /\ cursor = 0
    /\ original_pos = 0
    /\ pc = "validate"
    /\ metadata = <<>>
    /\ gd3_data = <<>>
    /\ command_list = <<>>
    /\ data_block = None
    /\ command = Unbound
    /\ err = NoError
    /\ run = 1
    /\ first = Fresh
    /\ out = <<>>

\* __init__: self.data = ByteBuffer(vgm_data); self.validate_vgm_data()
ValidateVgmData ==
    /\ pc = "validate"
    /\ LET r == validate_vgm_data(vgm_data, data, cursor)
       IN  /\ data' = r.data
           /\ cursor' = r.cursor
           /\ pc' = IF r.err = "none" THEN "metadata" ELSE "failed"
           /\ err' = [kind |-> r.err, msg |-> ""]
    /\ UNCHANGED <<py3, order, vgm_data, original_pos, metadata, gd3_data,
                   command_list, data_block, command, run, first, out>>

\* __init__: the four attributes are set up empty; self.parse_metadata()
ParseMetadata ==
    /\ pc = "metadata"
    /\ LET r == parse_metadata(data, order, cursor)
       IN  /\ metadata' = r.metadata
           /\ cursor' = r.cursor
           /\ pc' = IF r.err = "none" THEN "version" ELSE "failed"
           /\ err' = [kind |-> r.err, msg |-> ""]
    /\ command_list' = <<>>
    /\ data_block' = None
    /\ gd3_data' = <<>>
    /\ UNCHANGED <<py3, order, vgm_data, data, original_pos, command, run, first, out>>

\* __init__: self.validate_vgm_version()
ValidateVgmVersion ==
    /\ pc = "version"
    /\ LET r == validate_vgm_version(metadata)
       IN  /\ pc' = IF r.err = "none" THEN "gd3" ELSE "failed"
           /\ err' = [kind |-> r.err, msg |-> r.msg]
    /\ UNCHANGED <<py3, order, vgm_data, data, cursor, original_pos, metadata,
                   gd3_data, command_list, data_block, command, run, first, out>>

\* __init__: self.parse_gd3()
ParseGd3 ==
    /\ pc = "gd3"
    /\ LET r == parse_gd3(data, metadata, cursor)
       IN  /\ gd3_data' = r.gd3_data
           /\ cursor' = r.cursor
           /\ pc' = IF r.err = "none" THEN "commands" ELSE "failed"
           /\ err' = [kind |-> r.err, msg |-> ""]
    /\ UNCHANGED <<py3, order, vgm_data, data, original_pos, metadata,
                   command_list, data_block, command, run, first, out>>

\* parse_commands, up to the loop: the position is saved, the cursor moved to
\* the start of the VGM data
ParseCommandsSeek ==
    /\ pc = "commands"
    /\ original_pos' = cursor
    /\ cursor' = position(metadata.vgm_data_offset,
                           metadata_offsets.vgm_data_offset.offset)
    /\ pc' = "scan"
    /\ UNCHANGED <<py3, order, vgm_data, data, metadata, gd3_data, command_list,
                   data_block, command, err, run, first, out>>

\* parse_commands: one pass of the loop, and after the pass that breaks the
\* seek back that ends parse_commands and construction
ParseCommandsLoop ==
    /\ pc = "scan"
    /\ LET r == scan_iteration(data, cursor, command_list, data_block, py3)
       IN  /\ command' = r.command
           /\ command_list' = r.command_list
           /\ data_block' = r.data_block
           /\ cursor' = IF r.next = "break" THEN seek_back(original_pos, r.cursor)
                        ELSE r.cursor
           /\ pc' = CASE r.next = "loop" -> "scan"
                      [] r.next = "break" -> "done"
                      [] OTHER -> "failed"
           /\ err' = IF r.next = "struct.error"
                     THEN [kind |-> "struct.error", msg |-> ""] ELSE err
    /\ UNCHANGED <<py3, order, vgm_data, data, original_pos, metadata, gd3_data,
                   run, first, out>>

\* parser.save(buffer) on the Parser of the input, buffer being empty
Save ==
    /\ pc = "done"
    /\ run = 1
    /\ out' = save(metadata, command_list, order)
    /\ first' = [command_list |-> command_list, metadata |-> metadata,
                 data_block |-> data_block]
    /\ pc' = "saved"
    /\ UNCHANGED <<py3, order, vgm_data, data, cursor, original_pos, metadata,
                   gd3_data, command_list, data_block, command, err, run>>

\* Parser(saved bytes): a second instance is constructed from what save wrote
Reparse ==
    /\ pc = "saved"
    /\ run' = 2
    /\ vgm_data' = Raw(out)
    /\ data' = out
    /\ cursor' = 0
    /\ original_pos' = 0
    /\ pc' = "validate"
    /\ metadata' = <<>>
    /\ gd3_data' = <<>>
    /\ command_list' = <<>>
    /\ data_block' = None
    /\ command' = Unbound
    /\ err' = NoError
    /\ UNCHANGED <<py3, order, first, out>>

Next ==
    \/ ValidateVgmData
    \/ ParseMetadata
    \/ ValidateVgmVersion
    \/ ParseGd3
    \/ ParseCommandsSeek
    \/ ParseCommandsLoop
    \/ Save
    \/ Reparse

Spec == Init /\ [][Next]_vars

---------------------------------------------------------------------------
(* Claims *)

\* the opcodes of a command list
Opcodes(cl) == [i \in 1..Len(cl) |-> cl[i].command]

\* C1: a file parsed without a data block, saved and parsed again from the
\* saved bytes, gives a command list of the same length and opcodes
C1_SaveReparseKeepsOpcodes ==
    (run = 2 /\ first.data_block = None) =>
        /\ pc # "failed"
        /\ pc = "done" => Opcodes(command_list) = Opcodes(first.command_list)

\* C2: a pass of the scan loop entered with no byte left to read ends the
\* scan, without an error
C2_EndOfBufferStopsScan ==
    [][(pc = "scan" /\ cursor >= Len(data)) => (pc' = "done" /\ err' = NoError)]_vars

\* the GD3 payload parse_gd3 reads in the current state
Gd3Payload ==
    LET start == position(metadata.gd3_offset, \h14 + 8)
    IN  Read(data, start + 4, FromLE(Read(data, start, 4)))

\* the two-byte zero terminators of a payload
Terminators(p) ==
    Cardinality({ k \in 0..((Len(p) \div 2) - 1) : p[2 * k + 1] = 0 /\ p[2 * k + 2] = 0 })

\* the payload ends with a terminator (no unterminated code units trail)
EndsTerminated(p) ==
    Len(p) % 2 = 0 /\ (Len(p) > 0 => (p[Len(p) - 1] = 0 /\ p[Len(p)] = 0))

\* C3 as stated: parse_gd3 accepts a payload only with exactly 11 terminators
\* and nothing after the last, and fails with fewer
C3_ExactlyEleven ==
    /\ gd3_data # <<>> => (Terminators(Gd3Payload) = 11 /\ EndsTerminated(Gd3Payload))
    /\ err.kind = "IndexError" => Terminators(Gd3Payload) < 11

\* C3 amended: parse_gd3 accepts a payload exactly when it holds at least 11
\* terminators; it fails (index error) with fewer
C3_AtLeastEleven ==
    /\ gd3_data # <<>> => Terminators(Gd3Payload) >= 11
    /\ err.kind = "IndexError" => Terminators(Gd3Payload) < 11

C3_Witness ==
    /\ gd3_data # <<>>
    /\ Terminators(Gd3Payload) = 12
    /\ ~EndsTerminated(Gd3Payload)

\* the opcodes the dispatch enumerates
Enumerated ==
    (\h4F..\h54) \cup (\h61..\h63) \cup {\h66, \h67} \cup (\h70..\h8F) \cup {\hE0}

\* the operand length the opcode fixes
OperandLength(op) ==
    CASE op \in {\h4F, \h50} -> 1
      [] op \in (\h51..\h54) \cup {\h61} -> 2
      [] op = \hE0 -> 4
      [] OTHER -> 0

RECURSIVE Records(_, _)
\* the records of the stream of buf from pos on: one per enumerated opcode
\* other than 0x67, up to and including the first 0x66
Records(buf, pos) ==
    IF pos >= Len(buf) THEN <<>>
    ELSE LET op == buf[pos + 1]
             n == OperandLength(op)
         IN  IF op = \h66 THEN << [command |-> <<op>>, data |-> None] >>
             ELSE IF op = \h67
             THEN LET size == Read(buf, pos + 3, 4)
                  IN  IF Len(size) < 4 THEN <<>>
                      ELSE Records(buf, position(FromLE(size), pos + 7))
             ELSE IF op \in Enumerated
             THEN << [command |-> <<op>>,
                      data |-> IF n = 0 THEN None ELSE Some(Read(buf, pos + 1, n))] >>
                  \o Records(buf, pos + 1 + n)
             ELSE Records(buf, pos + 1)

\* every operand has the length its opcode fixes
FullOperands(cl) ==
    \A i \in 1..Len(cl) :
        cl[i].data # None => Len(cl[i].data[1]) = OperandLength(cl[i].command[1])

\* C4 as stated: the command list is the records from data offset + 0x34 on,
\* each operand exactly the N bytes its opcode fixes
C4_RecordsExactOperands ==
    pc = "done" =>
        /\ command_list = Records(data, position(metadata.vgm_data_offset, \h34))
        /\ FullOperands(command_list)

\* C4 amended: the command list is the records from data offset + 0x34 on,
\* each operand the N bytes after its opcode, or the fewer that are left when
\* the buffer ends inside the operand
C4_Records ==
    pc = "done" =>
        command_list = Records(data, position(metadata.vgm_data_offset, \h34))

C4_Witness ==
    /\ pc = "done"
    /\ Len(command_list) = 2
    /\ command_list[1] = [command |-> <<\h61>>, data |-> Some(<<\h10, \h00>>)]
    /\ command_list[2] = [command |-> <<\h66>>, data |-> None]

\* C5: the header save() wrote, decoded with the Format Table, is the
\* metadata map
C5_HeaderRoundTrip ==
    pc = "saved" =>
        LET r == metadata_loop(out, Declared, 1, <<>>)
        IN  r.ok /\ r.metadata = metadata

\* the version strings of the versions outside the allow-list
VersionStrings ==
    (\h0 :> "0.00") @@ (\h100 :> "1.00") @@ (\h110 :> "1.10") @@ (\h151 :> "1.51")
    @@ (\h200 :> "2.00") @@ (\h12345 :> "123.45")

\* the version check has been made in the current construction
VersionChecked ==
    /\ pc \notin {"validate", "metadata", "version"}
    /\ DOMAIN metadata = DOMAIN metadata_offsets

\* C6: the version check passes exactly for 0x101 and 0x150; any other
\* version raises the version error with its major.minor string, and neither
\* the GD3 block nor the commands are parsed
C6_VersionGate ==
    VersionChecked =>
        IF metadata.version \in {\h101, \h150}
        THEN err.kind # "VersionError"
        ELSE /\ pc = "failed"
             /\ err.kind = "VersionError"
             /\ metadata.version \in DOMAIN VersionStrings =>
                    err.msg = "VGM version " \o VersionStrings[metadata.version]
                              \o " is not supported"
             /\ gd3_data = <<>>
             /\ command_list = <<>>
             /\ data_block = None
             /\ command = Unbound

C6_Witness ==
    /\ err = [kind |-> "VersionError", msg |-> "VGM version 2.00 is not supported"]
    /\ metadata.version = \h200

\* a pass of the scan loop is about to read 0x67 and a 4-byte length
DataBlockAhead ==
    /\ pc = "scan"
    /\ Read(data, cursor, 1) = <<\h67>>
    /\ Len(Read(data, cursor + 3, 4)) = 4

\* nothing but a 0x67 pass changes the data block: the last block stays
OnlyBlocksStore ==
    (pc = "scan" /\ Read(data, cursor, 1) # <<\h67>>) => data_block' = data_block

\* C7 as stated: a 0x67 pass skips 2 bytes, reads the length L, stores exactly
\* L payload bytes, appends no record and goes on after the payload
C7_ExactPayload ==
    [][/\ DataBlockAhead =>
            LET L == FromLE(Read(data, cursor + 3, 4))
            IN  /\ data_block' = Some(Read(data, cursor + 7, L))
                /\ Len(data_block'[1]) = L
                /\ cursor' = cursor + 7 + L
                /\ command_list' = command_list
                /\ pc' = "scan"
       /\ OnlyBlocksStore]_vars

\* C7 amended: a 0x67 pass skips 2 bytes, reads the length L, stores the L
\* payload bytes, or all that are left when fewer than L are, appends no
\* record and goes on after them
C7_Payload ==
    [][/\ DataBlockAhead =>
            LET L == FromLE(Read(data, cursor + 3, 4))
            IN  /\ data_block' = Some(Read(data, cursor + 7, L))
                /\ cursor' = cursor + 7 + Len(data_block'[1])
                /\ command_list' = command_list
                /\ pc' = "scan"
       /\ OnlyBlocksStore]_vars

C7_Witness ==
    /\ pc = "scan"
    /\ Read(data, \h40, 9) = <<\h67, \h66, \h00, 2, 0, 0, 0, \hAA, \hBB>>
    /\ cursor = \h40 + 9 + 8
    /\ data_block = Some(<<\hCC>>)
    /\ command_list = <<>>

\* no metadata field is decoded from bytes the buffer lacks
NoFieldFromMissingBytes ==
    \A k \in DOMAIN metadata :
        LET o == metadata_offsets[k]
        IN  /\ o.offset + o.size <= Len(data)
            /\ metadata[k] = IF o.type_format = "None" THEN Read(data, o.offset, o.size)
                             ELSE FromLE(Read(data, o.offset, o.size))

\* construction has gone past parse_metadata
PastMetadata == pc \in {"version", "gd3", "commands", "scan", "done", "saved"}

\* C8 as stated: an argument of fewer than 0x38 bytes never gets past
\* parse_metadata, and no field is decoded from missing bytes
C8_ShortArgumentFails ==
    (run = 1 /\ vgm_data.size < \h38) => (~PastMetadata /\ NoFieldFromMissingBytes)

\* C8 amended: VGM bytes (the argument, or what it decompresses to) fewer than
\* 0x38 never get past parse_metadata, and no field is decoded from missing
\* bytes
C8_ShortDataFails ==
    /\ (pc # "validate" /\ Len(data) < \h38) => ~PastMetadata
    /\ NoFieldFromMissingBytes

C8_Witness ==
    /\ pc = "failed"
    /\ err.kind = "struct.error"
    /\ Len(data) = \h37
    /\ "ym2151_clock" \in DOMAIN metadata
    /\ "vgm_data_offset" \notin DOMAIN metadata

\* C9: at every boundary between sub-steps the cursor is where it was before
\* construction, at 0
C9_CursorRestored ==
    pc \in {"metadata", "version", "gd3", "commands", "done", "saved"} => cursor = 0

C9_Witness ==
    /\ pc = "done"
    /\ vgm_data.gzip
    /\ Len(command_list) > 0
    /\ cursor = 0

\* a pass of the scan loop is about to read a byte outside the enumerated ranges
UnknownAhead ==
    /\ pc = "scan"
    /\ cursor < Len(data)
    /\ data[cursor + 1] \notin Enumerated

\* C10 as stated: on a byte outside the enumerated ranges the loop stalls, the
\* cursor not moving past the byte
C10_UnknownStalls ==
    [][UnknownAhead => (cursor' = cursor /\ UnknownAhead')]_vars

\* C10 amended: on a byte outside the enumerated ranges the loop appends no
\* record, stores nothing, and goes on with the byte after it
C10_UnknownSkipped ==
    [][UnknownAhead =>
          /\ cursor' = cursor + 1
          /\ pc' = "scan"
          /\ command_list' = command_list
          /\ data_block' = data_block
          /\ err' = err]_vars

C10_Witness ==
    /\ pc = "done"
    /\ run = 1
    /\ metadata.vgm_data_offset = \h0C
    /\ Read(data, \h40, 2) = <<\h00, \h66>>
    /\ command_list = << [command |-> <<\h66>>, data |-> None] >>

====
